---- MODULE Spec2Model ----
(***************************************************************************)
(* A model of the PS/2 mouse command set (src/src/mouse.rs) and of the     *)
(* error taxonomy it reports in (src/src/error.rs).                        *)
(*                                                                         *)
(* Every Mouse operation is a synchronous exchange with the controller:    *)
(* it runs to completion before the caller gets control back, so each      *)
(* operation is one action.  The controller is seen through its three      *)
(* entry points read_data, write_mouse and write_data, each returning      *)
(* Result<_, ControllerError>.  The bytes the device will answer with are  *)
(* the stream rx; what a write returns is chosen by the environment.       *)
(***************************************************************************)
EXTENDS Integers, Sequences, FiniteSets, TLC

VARIABLES
    rx,      \* outcomes the controller's coming read_data calls will return
    op,      \* name of the last Mouse operation called ("none" before any)
    arg,     \* its argument: <<>> or <<byte>>
    log,     \* the controller calls the last operation made, in order
    result,  \* what the last operation returned
    rxPre    \* rx as it was when the last operation was called

vars == <<rx, op, arg, log, result, rxPre>>

----------------------------------------------------------------------------
(* Bounds of the model.                                                    *)

\* Longest device answer stream drawn at Init of the protocol specification.
MaxRx == 3
\* Longest device answer stream of the reset specification.
MaxResetRx == 4
\* Longest device answer stream of the argument-validation specification.
MaxArgRx == 2

Byte == 0..255

----------------------------------------------------------------------------
(* Result values.  Ok(v) / Err(e) are Rust's Result; a controller read     *)
(* returns Ok(byte), every Mouse operation returns Ok of a tuple.          *)

Ok(v) == <<"Ok", v>>
Err(e) == <<"Err", e>>
IsOk(r) == r[1] = "Ok"
IsErr(r) == r[1] = "Err"
Unit == <<>>

\* enum ControllerError
Timeout == <<"Timeout">>
TestFailed(response) == <<"TestFailed", response>>

\* enum MouseError
SelfTestFailed == <<"SelfTestFailed">>
Resend == <<"Resend">>
InvalidResponse(b) == <<"InvalidResponse", b>>
InvalidResolution(b) == <<"InvalidResolution", b>>
InvalidSampleRate(b) == <<"InvalidSampleRate", b>>
ControllerError(e) == <<"ControllerError", e>>

\* A conversion that keeps the variant and drops the response byte
MouseError_from_lossy(err) ==
    IF err[1] = "TestFailed" THEN <<"ControllerError", <<"TestFailed", 0>>>>
    ELSE <<"ControllerError", err>>

\* impl From<ControllerError> for MouseError
MouseError_from(err) == ControllerError(err)

\* enum KeyboardError, the variant that wraps a controller error, and
\* impl From<ControllerError> for KeyboardError
KeyboardError_ControllerError(e) == <<"KeyboardError::ControllerError", e>>
KeyboardError_from(err) == KeyboardError_ControllerError(err)

----------------------------------------------------------------------------
(* Protocol bytes and command opcodes.                                     *)

COMMAND_ACKNOWLEDGED == 250  \* 0xfa
RESEND == 254                \* 0xfe
SELF_TEST_PASSED == 170      \* 0xaa
SELF_TEST_FAILED == 252      \* 0xfc

SetScaling1To1 == 230        \* 0xe6
SetScaling2To1 == 231        \* 0xe7
SetResolution == 232         \* 0xe8
StatusRequest == 233         \* 0xe9
SetStreamMode == 234         \* 0xea
ReadData == 235              \* 0xeb
ResetWrapMode == 236         \* 0xec
SetWrapMode == 238           \* 0xee
SetRemoteMode == 240         \* 0xf0
GetDeviceID == 242           \* 0xf2
SetSampleRate == 243         \* 0xf3
EnableDataReporting == 244   \* 0xf4
DisableDataReporting == 245  \* 0xf5
SetDefaults == 246           \* 0xf6
ResendLastPacket == 254      \* 0xfe
ResetAndSelfTest == 255      \* 0xff

VALID_RESOLUTIONS == <<1, 2, 4, 8>>
VALID_SAMPLE_RATES == <<10, 20, 40, 60, 80, 100, 200>>

\* slice::contains
contains(s, v) == \E i \in 1..Len(s) : s[i] = v
\* Iterator::position: the zero-based index of the first match
position(s, v) == (CHOOSE i \in 1..Len(s) :
                      /\ s[i] = v
                      /\ \A j \in 1..(i - 1) : s[j] # v) - 1

----------------------------------------------------------------------------
(* Bit arithmetic on machine integers.                                     *)

RECURSIVE BitAnd(_, _)
BitAnd(a, b) ==
    IF a = 0 \/ b = 0 THEN 0
    ELSE 2 * BitAnd(a \div 2, b \div 2) + (IF a % 2 = 1 /\ b % 2 = 1 THEN 1 ELSE 0)

RECURSIVE BitOr(_, _)
BitOr(a, b) ==
    IF a = 0 THEN b
    ELSE IF b = 0 THEN a
    ELSE 2 * BitOr(a \div 2, b \div 2) + (IF a % 2 = 1 \/ b % 2 = 1 THEN 1 ELSE 0)

\* `v as i16` of a u16: reinterpret the 16 bits in two's complement
AsI16(v) == IF v >= 32768 THEN v - 65536 ELSE v

\* The flag types of flags.rs
X_SIGN_BIT == 16             \* 0x10
Y_SIGN_BIT == 32             \* 0x20
MouseMovement_ALL == 255
MouseStatus_ALL == 119       \* 0x77: bits 3 and 7 are not flags

\* bitflags from_bits_truncate: unknown bits are dropped
MouseMovement_from_bits_truncate(b) == BitAnd(b, MouseMovement_ALL)
MouseStatus_from_bits_truncate(b) == BitAnd(b, MouseStatus_ALL)
\* bitflags contains
flags_contains(flags, bit) == BitAnd(flags, bit) = bit

\* MouseType::from(u8)
MouseType_from(b) ==
    CASE b = 0 -> <<"Standard">>
      [] b = 3 -> <<"IntelliMouse">>
      [] b = 4 -> <<"IntelliMouseExplorer">>
      [] OTHER -> <<"Unknown", b>>

----------------------------------------------------------------------------
(* The controller, as the Mouse sees it.  An exchange context c holds the  *)
(* read outcomes still to come (c.rx), the outcomes of the writes to come  *)
(* (c.wx) and the calls made so far (c.log).  Every call returns           *)
(* [ctx |-> the context after it, res |-> its Result].                     *)

Ctx(r, w) == [rx |-> r, wx |-> w, log |-> <<>>]
Ret(c, r) == [ctx |-> c, res |-> r]

\* A log entry: <<call, bytes written, outcome>>
ReadCall(o) == <<"read_data", <<>>, o>>
WriteCall(call, b, o) == <<call, <<b>>, o>>

\* Controller::read_data: the next byte of the output buffer, or Timeout
\* when the output buffer never fills.
Controller_read_data(c) ==
    IF c.rx = <<>>
    THEN Ret([c EXCEPT !.log = Append(@, ReadCall(Err(Timeout)))], Err(Timeout))
    ELSE Ret([c EXCEPT !.rx = Tail(@), !.log = Append(@, ReadCall(Head(c.rx)))],
             Head(c.rx))

\* Controller::write_mouse / Controller::write_data: the byte goes out, or
\* the poll for "input buffer empty" fails.
Controller_write(c, call, b) ==
    Ret([c EXCEPT !.wx = Tail(@), !.log = Append(@, WriteCall(call, b, Head(c.wx)))],
        Head(c.wx))
Controller_write_mouse(c, b) == Controller_write(c, "write_mouse", b)
Controller_write_data(c, b) == Controller_write(c, "write_data", b)

\* The `?` operator on a controller Result: the error converted by From.
Lift(r) == Err(MouseError_from(r[2]))

----------------------------------------------------------------------------
(* impl Mouse                                                              *)

\* check_response reading again after a failed read
check_response_retry(c) ==
    LET r0 == Controller_read_data(c)
        r == IF IsErr(r0.res) THEN Controller_read_data(r0.ctx) ELSE r0
    IN
    IF IsErr(r.res) THEN Ret(r.ctx, Lift(r.res))
    ELSE CASE r.res[2] = COMMAND_ACKNOWLEDGED -> Ret(r.ctx, Ok(Unit))
           [] r.res[2] = RESEND -> Ret(r.ctx, Err(Resend))
           [] OTHER -> Ret(r.ctx, Err(InvalidResponse(r.res[2])))

\* check_response taking every byte that is not ACK for a resend request
check_response_resend_default(c) ==
    LET r == Controller_read_data(c) IN
    IF IsErr(r.res) THEN Ret(r.ctx, Lift(r.res))
    ELSE CASE r.res[2] = COMMAND_ACKNOWLEDGED -> Ret(r.ctx, Ok(Unit))
           [] OTHER -> Ret(r.ctx, Err(Resend))

check_response(c) ==
    LET r == Controller_read_data(c) IN
    IF IsErr(r.res) THEN Ret(r.ctx, Lift(r.res))
    ELSE CASE r.res[2] = COMMAND_ACKNOWLEDGED -> Ret(r.ctx, Ok(Unit))
           [] r.res[2] = RESEND -> Ret(r.ctx, Err(Resend))
           [] OTHER -> Ret(r.ctx, Err(InvalidResponse(r.res[2])))

\* write_command dropping the result of the first check_response
write_command_unchecked_ack(c, command, data) ==
    LET w1 == Controller_write_mouse(c, command) IN
    IF IsErr(w1.res) THEN Ret(w1.ctx, Lift(w1.res))
    ELSE LET a1 == check_response(w1.ctx) IN
    IF data = <<>> THEN Ret(a1.ctx, Ok(Unit))
    ELSE LET w2 == Controller_write_data(a1.ctx, data[1]) IN
    IF IsErr(w2.res) THEN Ret(w2.ctx, Lift(w2.res))
    ELSE LET a2 == check_response(w2.ctx) IN
    IF IsErr(a2.res) THEN a2
    ELSE Ret(a2.ctx, Ok(Unit))

\* write_command sending the command again when the device asks for a resend
write_command_retry_on_resend(c, command, data) ==
    LET w1 == Controller_write_mouse(c, command) IN
    IF IsErr(w1.res) THEN Ret(w1.ctx, Lift(w1.res))
    ELSE LET a1 == check_response(w1.ctx) IN
    IF a1.res = Err(Resend)
    THEN LET w0 == Controller_write_mouse(a1.ctx, command) IN
         IF IsErr(w0.res) THEN Ret(w0.ctx, Lift(w0.res))
         ELSE check_response(w0.ctx)
    ELSE IF IsErr(a1.res) THEN a1
    ELSE IF data = <<>> THEN Ret(a1.ctx, Ok(Unit))
    ELSE LET w2 == Controller_write_data(a1.ctx, data[1]) IN
    IF IsErr(w2.res) THEN Ret(w2.ctx, Lift(w2.res))
    ELSE LET a2 == check_response(w2.ctx) IN
    IF IsErr(a2.res) THEN a2
    ELSE Ret(a2.ctx, Ok(Unit))

\* write_command sending the argument before the command is acknowledged
write_command_arg_first(c, command, data) ==
    LET w1 == Controller_write_mouse(c, command) IN
    IF IsErr(w1.res) THEN Ret(w1.ctx, Lift(w1.res))
    ELSE IF data = <<>> THEN check_response(w1.ctx)
    ELSE LET w2 == Controller_write_data(w1.ctx, data[1]) IN
    IF IsErr(w2.res) THEN Ret(w2.ctx, Lift(w2.res))
    ELSE LET a1 == check_response(w2.ctx) IN
    IF IsErr(a1.res) THEN a1
    ELSE check_response(a1.ctx)

\* data is None (<<>>) or Some(b) (<<b>>)
write_command(c, command, data) ==
    LET w1 == Controller_write_mouse(c, command) IN
    IF IsErr(w1.res) THEN Ret(w1.ctx, Lift(w1.res))
    ELSE LET a1 == check_response(w1.ctx) IN
    IF IsErr(a1.res) THEN a1
    ELSE IF data = <<>> THEN Ret(a1.ctx, Ok(Unit))
    ELSE LET w2 == Controller_write_data(a1.ctx, data[1]) IN
    IF IsErr(w2.res) THEN Ret(w2.ctx, Lift(w2.res))
    ELSE LET a2 == check_response(w2.ctx) IN
    IF IsErr(a2.res) THEN a2
    ELSE Ret(a2.ctx, Ok(Unit))

set_scaling_one_to_one(c) == write_command(c, SetScaling1To1, <<>>)

set_scaling_two_to_one(c) == write_command(c, SetScaling2To1, <<>>)

\* set_resolution without the range check
set_resolution_unchecked(c, resolution) ==
    write_command(c, SetResolution, <<resolution>>)

\* set_resolution sending the value in place of its index
set_resolution_raw(c, resolution) ==
    IF ~contains(VALID_RESOLUTIONS, resolution)
    THEN Ret(c, Err(InvalidResolution(resolution)))
    ELSE write_command(c, SetResolution, <<resolution>>)

set_resolution(c, resolution) ==
    IF ~contains(VALID_RESOLUTIONS, resolution)
    THEN Ret(c, Err(InvalidResolution(resolution)))
    ELSE LET resolution_index == position(VALID_RESOLUTIONS, resolution) IN
         write_command(c, SetResolution, <<resolution_index>>)

\* request_status rejecting the resolution byte before the sample rate is read
request_status_early_check(c) ==
    LET a == write_command(c, StatusRequest, <<>>) IN
    IF IsErr(a.res) THEN a
    ELSE LET r1 == Controller_read_data(a.ctx) IN
    IF IsErr(r1.res) THEN Ret(r1.ctx, Lift(r1.res))
    ELSE LET r2 == Controller_read_data(r1.ctx) IN
    IF IsErr(r2.res) THEN Ret(r2.ctx, Lift(r2.res))
    ELSE IF ~contains(VALID_RESOLUTIONS, r2.res[2])
    THEN Ret(r2.ctx, Err(InvalidResolution(r2.res[2])))
    ELSE LET r3 == Controller_read_data(r2.ctx) IN
    IF IsErr(r3.res) THEN Ret(r3.ctx, Lift(r3.res))
    ELSE IF ~contains(VALID_SAMPLE_RATES, r3.res[2])
    THEN Ret(r3.ctx, Err(InvalidSampleRate(r3.res[2])))
    ELSE Ret(r3.ctx, Ok(<<MouseStatus_from_bits_truncate(r1.res[2]), r2.res[2], r3.res[2]>>))

request_status(c) ==
    LET a == write_command(c, StatusRequest, <<>>) IN
    IF IsErr(a.res) THEN a
    ELSE LET r1 == Controller_read_data(a.ctx) IN
    IF IsErr(r1.res) THEN Ret(r1.ctx, Lift(r1.res))
    ELSE LET r2 == Controller_read_data(r1.ctx) IN
    IF IsErr(r2.res) THEN Ret(r2.ctx, Lift(r2.res))
    ELSE LET r3 == Controller_read_data(r2.ctx) IN
    IF IsErr(r3.res) THEN Ret(r3.ctx, Lift(r3.res))
    ELSE LET status == MouseStatus_from_bits_truncate(r1.res[2])
             resolution == r2.res[2]
             sample_rate == r3.res[2]
         IN  IF ~contains(VALID_RESOLUTIONS, resolution)
             THEN Ret(r3.ctx, Err(InvalidResolution(resolution)))
             ELSE IF ~contains(VALID_SAMPLE_RATES, sample_rate)
             THEN Ret(r3.ctx, Err(InvalidSampleRate(sample_rate)))
             ELSE Ret(r3.ctx, Ok(<<status, resolution, sample_rate>>))

set_stream_mode(c) == write_command(c, SetStreamMode, <<>>)

\* sign_extend without the OR of 0xff00
sign_extend_no_or(movement_flags, sign_bit, raw) == AsI16(raw)

\* One axis of read_data: the byte widened to u16, 0xff00 OR-ed in when the
\* axis's sign flag is set, then reinterpreted as i16.
sign_extend(movement_flags, sign_bit, raw) ==
    AsI16(IF flags_contains(movement_flags, sign_bit)
          THEN BitOr(raw, 65280)
          ELSE raw)

read_data(c) ==
    LET a == write_command(c, ReadData, <<>>) IN
    IF IsErr(a.res) THEN a
    ELSE LET r1 == Controller_read_data(a.ctx) IN
    IF IsErr(r1.res) THEN Ret(r1.ctx, Lift(r1.res))
    ELSE LET r2 == Controller_read_data(r1.ctx) IN
    IF IsErr(r2.res) THEN Ret(r2.ctx, Lift(r2.res))
    ELSE LET r3 == Controller_read_data(r2.ctx) IN
    IF IsErr(r3.res) THEN Ret(r3.ctx, Lift(r3.res))
    ELSE LET movement_flags == MouseMovement_from_bits_truncate(r1.res[2])
             x_movement == sign_extend(movement_flags, X_SIGN_BIT, r2.res[2])
             y_movement == sign_extend(movement_flags, Y_SIGN_BIT, r3.res[2])
         IN  Ret(r3.ctx, Ok(<<movement_flags, x_movement, y_movement>>))

reset_wrap_mode(c) == write_command(c, ResetWrapMode, <<>>)

set_wrap_mode(c) == write_command(c, SetWrapMode, <<>>)

set_remote_mode(c) == write_command(c, SetRemoteMode, <<>>)

get_device_id(c) ==
    LET a == write_command(c, GetDeviceID, <<>>) IN
    IF IsErr(a.res) THEN a
    ELSE LET r == Controller_read_data(a.ctx) IN
    IF IsErr(r.res) THEN Ret(r.ctx, Lift(r.res))
    ELSE Ret(r.ctx, Ok(MouseType_from(r.res[2])))

\* set_sample_rate checking the range only after the command went out
set_sample_rate_late_check(c, sample_rate) ==
    LET a == write_command(c, SetSampleRate, <<>>) IN
    IF IsErr(a.res) THEN a
    ELSE IF ~contains(VALID_SAMPLE_RATES, sample_rate)
    THEN Ret(a.ctx, Err(InvalidSampleRate(sample_rate)))
    ELSE write_command(a.ctx, SetSampleRate, <<sample_rate>>)

set_sample_rate(c, sample_rate) ==
    IF ~contains(VALID_SAMPLE_RATES, sample_rate)
    THEN Ret(c, Err(InvalidSampleRate(sample_rate)))
    ELSE write_command(c, SetSampleRate, <<sample_rate>>)

enable_data_reporting(c) == write_command(c, EnableDataReporting, <<>>)

disable_data_reporting(c) == write_command(c, DisableDataReporting, <<>>)

set_defaults(c) == write_command(c, SetDefaults, <<>>)

\* resend_last_packet waiting for an acknowledgment like the other commands
resend_last_packet_checked(c) == write_command(c, ResendLastPacket, <<>>)

resend_last_packet(c) ==
    LET w == Controller_write_mouse(c, ResendLastPacket) IN
    IF IsErr(w.res) THEN Ret(w.ctx, Lift(w.res))
    ELSE Ret(w.ctx, Ok(Unit))

\* The match on the self-test byte of reset_and_self_test
self_test_result(b) ==
    CASE b = SELF_TEST_PASSED -> Ok(Unit)
      [] b = SELF_TEST_FAILED -> Err(SelfTestFailed)
      [] b = RESEND -> Err(Resend)
      [] OTHER -> Err(InvalidResponse(b))

\* reset_and_self_test leaving the device-ID byte unread
reset_and_self_test_no_id(c) ==
    LET a == write_command(c, ResetAndSelfTest, <<>>) IN
    IF IsErr(a.res) THEN a
    ELSE LET r1 == Controller_read_data(a.ctx) IN
    IF IsErr(r1.res) THEN Ret(r1.ctx, Lift(r1.res))
    ELSE Ret(r1.ctx, self_test_result(r1.res[2]))

\* reset_and_self_test returning a failed self-test at once
reset_and_self_test_early_return(c) ==
    LET a == write_command(c, ResetAndSelfTest, <<>>) IN
    IF IsErr(a.res) THEN a
    ELSE LET r1 == Controller_read_data(a.ctx) IN
    IF IsErr(r1.res) THEN Ret(r1.ctx, Lift(r1.res))
    ELSE LET res == self_test_result(r1.res[2]) IN
    IF IsErr(res) THEN Ret(r1.ctx, res)
    ELSE LET r2 == Controller_read_data(r1.ctx) IN
    IF IsErr(r2.res) THEN Ret(r2.ctx, Lift(r2.res))
    ELSE Ret(r2.ctx, res)

\* reset_and_self_test dropping the Result of the device-ID read
reset_and_self_test_ignore_id_error(c) ==
    LET a == write_command(c, ResetAndSelfTest, <<>>) IN
    IF IsErr(a.res) THEN a
    ELSE LET r1 == Controller_read_data(a.ctx) IN
    IF IsErr(r1.res) THEN Ret(r1.ctx, Lift(r1.res))
    ELSE Ret(Controller_read_data(r1.ctx).ctx, self_test_result(r1.res[2]))

reset_and_self_test(c) ==
    LET a == write_command(c, ResetAndSelfTest, <<>>) IN
    IF IsErr(a.res) THEN a
    ELSE LET r1 == Controller_read_data(a.ctx) IN
    IF IsErr(r1.res) THEN Ret(r1.ctx, Lift(r1.res))
    ELSE LET res == self_test_result(r1.res[2])
             r2 == Controller_read_data(r1.ctx)
         IN  IF IsErr(r2.res) THEN Ret(r2.ctx, Lift(r2.res))
             ELSE Ret(r2.ctx, res)

----------------------------------------------------------------------------
(* The environment: what the device answers and what the writes return.    *)

\* All streams of at most n outcomes drawn from A
Streams(A, n) == UNION {[1..k -> A] : k \in 0..n}

\* Outcomes of a controller read in the protocol specification: the
\* acknowledgment, the resend request, a byte that is neither, and the two
\* controller errors.
ProtoOutcomes ==
    {Ok(COMMAND_ACKNOWLEDGED), Ok(RESEND), Ok(2), Err(Timeout), Err(TestFailed(85))}

\* Outcomes of a controller write
WriteErrors == {Err(Timeout), Err(TestFailed(0))}
\* What the writes of one operation return: no operation writes more than
\* twice, and none writes again after a write failed.
WriteScripts ==
    {<<Ok(Unit), Ok(Unit)>>} \cup {<<Ok(Unit), e>> : e \in WriteErrors}
        \cup {<<e>> : e \in WriteErrors}

\* Arguments the caller passes in the protocol specification
ResolutionArgs == {1, 2, 4, 8, 3}
SampleRateArgs == {10, 100, 200, 50}

----------------------------------------------------------------------------
(* Actions: one per public operation of Mouse.                             *)

\* The caller invokes operation name with argument a; r is what it did.
Call(name, a, r) ==
    /\ op' = name
    /\ arg' = a
    /\ rxPre' = rx
    /\ rx' = r.ctx.rx
    /\ log' = r.ctx.log
    /\ result' = r.res

CallSetScalingOneToOne ==
    \E w \in WriteScripts : Call("set_scaling_one_to_one", <<>>, set_scaling_one_to_one(Ctx(rx, w)))

CallSetScalingTwoToOne ==
    \E w \in WriteScripts : Call("set_scaling_two_to_one", <<>>, set_scaling_two_to_one(Ctx(rx, w)))

CallSetResolution(R) ==
    \E resolution \in R, w \in WriteScripts :
        Call("set_resolution", <<resolution>>, set_resolution(Ctx(rx, w), resolution))

CallRequestStatus ==
    \E w \in WriteScripts : Call("request_status", <<>>, request_status(Ctx(rx, w)))

CallSetStreamMode ==
    \E w \in WriteScripts : Call("set_stream_mode", <<>>, set_stream_mode(Ctx(rx, w)))

CallReadData ==
    \E w \in WriteScripts : Call("read_data", <<>>, read_data(Ctx(rx, w)))

CallResetWrapMode ==
    \E w \in WriteScripts : Call("reset_wrap_mode", <<>>, reset_wrap_mode(Ctx(rx, w)))

CallSetWrapMode ==
    \E w \in WriteScripts : Call("set_wrap_mode", <<>>, set_wrap_mode(Ctx(rx, w)))

CallSetRemoteMode ==
    \E w \in WriteScripts : Call("set_remote_mode", <<>>, set_remote_mode(Ctx(rx, w)))

CallGetDeviceId ==
    \E w \in WriteScripts : Call("get_device_id", <<>>, get_device_id(Ctx(rx, w)))

CallSetSampleRate(R) ==
    \E sample_rate \in R, w \in WriteScripts :
        Call("set_sample_rate", <<sample_rate>>, set_sample_rate(Ctx(rx, w), sample_rate))

CallEnableDataReporting ==
    \E w \in WriteScripts : Call("enable_data_reporting", <<>>, enable_data_reporting(Ctx(rx, w)))

CallDisableDataReporting ==
    \E w \in WriteScripts : Call("disable_data_reporting", <<>>, disable_data_reporting(Ctx(rx, w)))

CallSetDefaults ==
    \E w \in WriteScripts : Call("set_defaults", <<>>, set_defaults(Ctx(rx, w)))

CallResendLastPacket ==
    \E w \in WriteScripts : Call("resend_last_packet", <<>>, resend_last_packet(Ctx(rx, w)))

CallResetAndSelfTest ==
    \E w \in WriteScripts : Call("reset_and_self_test", <<>>, reset_and_self_test(Ctx(rx, w)))

----------------------------------------------------------------------------
(* Specifications.                                                         *)

\* Mouse::new: a session over a controller whose device will answer with
\* some stream of at most n outcomes from A; no operation called yet.
InitWith(A, n) ==
    /\ rx \in Streams(A, n)
    /\ op = "none"
    /\ arg = <<>>
    /\ log = <<>>
    /\ result = Ok(Unit)
    /\ rxPre = <<>>

Init == InitWith(ProtoOutcomes, MaxRx)

Next ==
    \/ CallSetScalingOneToOne
    \/ CallSetScalingTwoToOne
    \/ CallSetResolution(ResolutionArgs)
    \/ CallRequestStatus
    \/ CallSetStreamMode
    \/ CallReadData
    \/ CallResetWrapMode
    \/ CallSetWrapMode
    \/ CallSetRemoteMode
    \/ CallGetDeviceId
    \/ CallSetSampleRate(SampleRateArgs)
    \/ CallEnableDataReporting
    \/ CallDisableDataReporting
    \/ CallSetDefaults
    \/ CallResendLastPacket
    \/ CallResetAndSelfTest

\* The protocol specification: every operation, against every answer stream
\* of protocol bytes and controller errors.
Spec == Init /\ [][Next]_vars

\* The argument-validation specification: set_resolution and
\* set_sample_rate called with every byte value.
InitArgs == InitWith({Ok(COMMAND_ACKNOWLEDGED)}, MaxArgRx)

NextArgs ==
    \/ CallSetResolution(Byte)
    \/ CallSetSampleRate(Byte)

SpecArgs == InitArgs /\ [][NextArgs]_vars

\* The reset specification: reset_and_self_test followed by later
\* operations, against every answer stream of the self-test bytes, and
\* against every self-test byte and every trailing byte.
ResetOutcomes ==
    {Ok(COMMAND_ACKNOWLEDGED), Ok(SELF_TEST_PASSED), Ok(SELF_TEST_FAILED),
     Ok(RESEND), Ok(2), Err(Timeout)}

ResetStreams ==
    Streams(ResetOutcomes, MaxResetRx)
        \cup {<<Ok(COMMAND_ACKNOWLEDGED), Ok(SELF_TEST_PASSED), Ok(t), n>> :
                 t \in Byte, n \in {Ok(COMMAND_ACKNOWLEDGED), Ok(0)}}
        \cup {<<Ok(COMMAND_ACKNOWLEDGED), Ok(b), Ok(0)>> : b \in Byte}
        \cup {<<Ok(COMMAND_ACKNOWLEDGED), Ok(b), Err(TestFailed(85))>> : b \in Byte}

InitReset ==
    /\ rx \in ResetStreams
    /\ op = "none"
    /\ arg = <<>>
    /\ log = <<>>
    /\ result = Ok(Unit)
    /\ rxPre = <<>>

NextReset ==
    \/ CallResetAndSelfTest
    \/ CallGetDeviceId
    \/ CallEnableDataReporting

SpecReset == InitReset /\ [][NextReset]_vars

\* The acknowledgment specification: the commands with neither argument
\* nor payload, the device answering with every byte value.
AckStreams ==
    {<<>>, <<Err(Timeout)>>, <<Err(TestFailed(85))>>}
        \cup {<<Ok(b)>> : b \in Byte}
        \cup {<<Ok(b), Ok(COMMAND_ACKNOWLEDGED)>> : b \in Byte}

InitAck ==
    /\ rx \in AckStreams
    /\ op = "none"
    /\ arg = <<>>
    /\ log = <<>>
    /\ result = Ok(Unit)
    /\ rxPre = <<>>

NextAck ==
    \/ CallSetScalingOneToOne
    \/ CallSetScalingTwoToOne
    \/ CallSetStreamMode
    \/ CallResetWrapMode
    \/ CallSetWrapMode
    \/ CallSetRemoteMode
    \/ CallEnableDataReporting
    \/ CallDisableDataReporting
    \/ CallSetDefaults

SpecAck == InitAck /\ [][NextAck]_vars

\* The status specification: set_resolution followed by request_status,
\* the device answering the status request with a reply of status flags,
\* resolution byte and sample-rate byte.
StatusReplies ==
    {<<a, Ok(f), Ok(r), Ok(s)>> :
        a \in {Ok(COMMAND_ACKNOWLEDGED), Ok(RESEND)},
        f \in {0, 255},
        r \in {0, 1, 2, 3, 4, 8},
        s \in {10, 100, 200, 0, 50}}

StatusStreams ==
    StatusReplies
        \cup {<<Ok(COMMAND_ACKNOWLEDGED), a>> \o reply :
                 a \in {Ok(COMMAND_ACKNOWLEDGED), Ok(RESEND)}, reply \in StatusReplies}
        \cup {SubSeq(reply, 1, n) : reply \in StatusReplies, n \in 0..3}

InitStatus ==
    /\ rx \in StatusStreams
    /\ op = "none"
    /\ arg = <<>>
    /\ log = <<>>
    /\ result = Ok(Unit)
    /\ rxPre = <<>>

NextStatus ==
    \/ CallSetResolution(ResolutionArgs)
    \/ CallRequestStatus

SpecStatus == InitStatus /\ [][NextStatus]_vars

\* The movement specification: read_data against every movement packet;
\* each axis ranges over every byte while the other takes sample values.
MovementFlagBytes == {0, 8, 16, 32, 48, 255}
SampleBytes == {0, 5, 128, 255}

MovementPackets ==
    {<<Ok(COMMAND_ACKNOWLEDGED), Ok(f), Ok(x), Ok(y)>> :
        f \in MovementFlagBytes, x \in Byte, y \in SampleBytes}
        \cup {<<Ok(COMMAND_ACKNOWLEDGED), Ok(f), Ok(x), Ok(y)>> :
                 f \in MovementFlagBytes, x \in SampleBytes, y \in Byte}

InitData ==
    /\ rx \in MovementPackets \cup Streams(ProtoOutcomes, 2)
    /\ op = "none"
    /\ arg = <<>>
    /\ log = <<>>
    /\ result = Ok(Unit)
    /\ rxPre = <<>>

NextData == CallReadData

SpecData == InitData /\ [][NextData]_vars

----------------------------------------------------------------------------
(* Reading the log of an operation.                                        *)

IsRead(e) == e[1] = "read_data"
IsWrite(e) == e[1] # "read_data"
Reads(l) == SelectSeq(l, IsRead)
Writes(l) == SelectSeq(l, IsWrite)
\* The bytes an operation transmitted, in order
WrittenBytes(l) == [i \in 1..Len(Writes(l)) |-> Writes(l)[i][2][1]]
\* The first controller call was the command write, and the byte went out
CommandSent == log # <<>> /\ IsWrite(log[1]) /\ IsOk(log[1][3])
\* rx after the operation is rxPre less its first n outcomes
Consumed(n) == Len(rxPre) >= n /\ rx = SubSeq(rxPre, n + 1, Len(rxPre))

ValidResolutionValues == {1, 2, 4, 8}
ValidSampleRateValues == {10, 20, 40, 60, 80, 100, 200}
\* The operation was called with an argument it accepts
ValidArgument ==
    /\ op = "set_resolution" => arg[1] \in ValidResolutionValues
    /\ op = "set_sample_rate" => arg[1] \in ValidSampleRateValues

----------------------------------------------------------------------------
(* Claims.                                                                 *)

CommandOps ==
    {"set_scaling_one_to_one", "set_scaling_two_to_one", "set_resolution",
     "request_status", "set_stream_mode", "read_data", "reset_wrap_mode",
     "set_wrap_mode", "set_remote_mode", "get_device_id", "set_sample_rate",
     "enable_data_reporting", "disable_data_reporting", "set_defaults",
     "resend_last_packet", "reset_and_self_test"}

\* The command byte went out and the device's answer to it is RESEND
AnsweredResend ==
    /\ op \in CommandOps
    /\ ValidArgument
    /\ CommandSent
    /\ rxPre # <<>>
    /\ rxPre[1] = Ok(RESEND)

\* C1 as stated: every command-issuing operation, resend_last_packet
\* included, returns MouseError::Resend and writes nothing further when the
\* device answers the command byte with RESEND.
C1_ResendSurfacedByEveryOperation ==
    AnsweredResend => result = Err(Resend) /\ Len(Writes(log)) = 1

\* C1 as amended: every command-issuing operation but resend_last_packet
\* returns MouseError::Resend after the one command write and the one read
\* that returned RESEND; resend_last_packet reads no answer, leaves the
\* RESEND byte unread and returns Ok.
C1_ResendSurfaced ==
    /\ (AnsweredResend /\ op # "resend_last_packet") =>
          /\ result = Err(Resend)
          /\ Len(log) = 2
          /\ IsRead(log[2])
          /\ Consumed(1)
    /\ (AnsweredResend /\ op = "resend_last_packet") =>
          /\ result = Ok(Unit)
          /\ Len(log) = 1
          /\ rx = rxPre

C1_Witness ==
    /\ op = "set_sample_rate"
    /\ arg = <<100>>
    /\ AnsweredResend
    /\ result = Err(Resend)
    /\ Len(rxPre) = 3

\* C2: set_resolution(r) with r outside {1,2,4,8} returns
\* InvalidResolution(r) and makes no controller call: nothing is written,
\* nothing is read, the device's answer stream is unchanged.
C2_InvalidResolutionNoAccess ==
    (op = "set_resolution" /\ arg[1] \notin ValidResolutionValues) =>
        /\ result = Err(InvalidResolution(arg[1]))
        /\ log = <<>>
        /\ rx = rxPre

C2_Witness ==
    /\ op = "set_resolution"
    /\ arg = <<255>>
    /\ result = Err(InvalidResolution(255))
    /\ rx # <<>>

\* C3: set_sample_rate(s) with s outside {10,20,40,60,80,100,200} returns
\* InvalidSampleRate(s) and makes no controller call.
C3_InvalidSampleRateNoAccess ==
    (op = "set_sample_rate" /\ arg[1] \notin ValidSampleRateValues) =>
        /\ result = Err(InvalidSampleRate(arg[1]))
        /\ log = <<>>
        /\ rx = rxPre

C3_Witness ==
    /\ op = "set_sample_rate"
    /\ arg = <<8>>
    /\ result = Err(InvalidSampleRate(8))
    /\ rx # <<>>

\* The last operation was a set_resolution that succeeded
ResolutionSet ==
    /\ op = "set_resolution"
    /\ result = Ok(Unit)

\* C4: resolution round trip.  When set_resolution(r) has succeeded and the
\* next operation is a request_status whose reply carries, as its
\* resolution byte, the byte set_resolution transmitted (and a valid sample
\* rate), request_status returns Ok with resolution r.
C4_ResolutionRoundTrip ==
    [][(/\ ResolutionSet
        /\ op' = "request_status"
        /\ Len(log') = 5
        /\ \A i \in 1..5 : IsOk(log'[i][3])
        /\ log'[2][3] = Ok(COMMAND_ACKNOWLEDGED)
        /\ log'[4][3] = Ok(WrittenBytes(log)[2])
        /\ log'[5][3][2] \in ValidSampleRateValues)
       => (/\ IsOk(result')
           /\ result'[2][2] = arg[1]
           /\ result'[2][3] = log'[5][3][2])]_vars

\* The index on the wire of an accepted resolution
WireIndex(r) == CASE r = 1 -> 0 [] r = 2 -> 1 [] r = 4 -> 2 [] r = 8 -> 3

\* C5: set_resolution(r), r in {1,2,4,8}, with both writes going out and the
\* device acknowledging both, transmits 0xE8 and then the one byte that is
\* the zero-based position of r in (1,2,4,8), and returns Ok.
C5_ResolutionSentAsIndex ==
    (/\ op = "set_resolution"
     /\ arg[1] \in ValidResolutionValues
     /\ \A i \in 1..Len(log) : IsWrite(log[i]) => IsOk(log[i][3])
     /\ Len(rxPre) >= 2
     /\ rxPre[1] = Ok(COMMAND_ACKNOWLEDGED)
     /\ rxPre[2] = Ok(COMMAND_ACKNOWLEDGED))
    => (/\ WrittenBytes(log) = <<232, WireIndex(arg[1])>>
        /\ result = Ok(Unit))

C5_Witness ==
    /\ op = "set_resolution"
    /\ arg = <<4>>
    /\ WrittenBytes(log) = <<232, 2>>
    /\ result = Ok(Unit)

\* The sign flag sign_bit is set in the movement-flags byte f
SignFlagSet(f, sign_bit) == (f \div sign_bit) % 2 = 1
\* The value of a movement byte b under its sign flag
Signed(b, negative) == IF negative THEN b - 256 ELSE b

\* C6: read_data returns, for each axis, b - 256 when the axis's sign flag
\* is set in the movement-flags byte and b when it is clear, where b is the
\* second byte read after the acknowledgment for X and the third for Y;
\* each axis follows its own flag.
C6_SignExtension ==
    (op = "read_data" /\ IsOk(result)) =>
        LET r == Reads(log)
            f == r[2][3][2]
        IN  /\ Len(r) = 4
            /\ result[2][2] = Signed(r[3][3][2], SignFlagSet(f, X_SIGN_BIT))
            /\ result[2][3] = Signed(r[4][3][2], SignFlagSet(f, Y_SIGN_BIT))

C6_Witness ==
    /\ op = "read_data"
    /\ rxPre = <<Ok(COMMAND_ACKNOWLEDGED), Ok(16), Ok(5), Ok(5)>>
    /\ result = Ok(<<16, -251, 5>>)

\* reset_and_self_test was called, its command went out, and the device
\* answered ACK, the self-test pass byte and a trailing byte
ResetPassed ==
    /\ op = "reset_and_self_test"
    /\ CommandSent
    /\ Len(rxPre) >= 3
    /\ rxPre[1] = Ok(COMMAND_ACKNOWLEDGED)
    /\ rxPre[2] = Ok(SELF_TEST_PASSED)
    /\ IsOk(rxPre[3])

\* C7: reset_and_self_test answered with ACK, 0xAA and any trailing byte t
\* returns Ok having read exactly those three bytes; the first read of the
\* next operation returns what followed t in the device's answers.
C7_TrailingByteConsumed ==
    /\ [](ResetPassed =>
            /\ result = Ok(Unit)
            /\ Len(Reads(log)) = 3
            /\ Consumed(3))
    /\ [][(ResetPassed /\ Len(rxPre) >= 4 /\ Reads(log') # <<>>)
            => Reads(log')[1][3] = rxPre[4]]_vars

C7_Witness ==
    /\ ResetPassed
    /\ rxPre[3] = Ok(SELF_TEST_PASSED)
    /\ result = Ok(Unit)
    /\ rx = <<Ok(2)>>

\* The classification of a self-test byte
SelfTestClass(b) ==
    CASE b = 170 -> Ok(Unit)
      [] b = 252 -> Err(SelfTestFailed)
      [] b = 254 -> Err(Resend)
      [] OTHER -> Err(InvalidResponse(b))

\* reset_and_self_test was called, its command was acknowledged and the
\* device sent a self-test byte
ResetAnswered ==
    /\ op = "reset_and_self_test"
    /\ CommandSent
    /\ Len(rxPre) >= 2
    /\ rxPre[1] = Ok(COMMAND_ACKNOWLEDGED)
    /\ IsOk(rxPre[2])

\* C8: once the reset command is acknowledged, reset_and_self_test reads the
\* self-test byte b and then one further byte whatever b is, and, that byte
\* read, returns Ok for 0xAA, SelfTestFailed for 0xFC, Resend for 0xFE and
\* InvalidResponse(b) for any other b.
C8_SelfTestClassified ==
    ResetAnswered =>
        /\ Len(Reads(log)) = 3
        /\ Len(Writes(log)) = 1
        /\ IsOk(log[Len(log)][3]) =>
              /\ result = SelfTestClass(rxPre[2][2])
              /\ Consumed(3)

C8_Witness ==
    /\ ResetAnswered
    /\ rxPre[2] = Ok(SELF_TEST_FAILED)
    /\ result = Err(SelfTestFailed)
    /\ Len(Reads(log)) = 3
    /\ Consumed(3)

\* Every read of the last operation found the output buffer never full
NeverOutputFull == \A i \in 1..Len(rxPre) : rxPre[i] = Err(Timeout)

\* C9: when every controller read times out, an operation that reads (its
\* command byte having gone out) returns ControllerError(Timeout) after one
\* read: the read is not repeated and nothing further is written.
C9_TimeoutTerminates ==
    (/\ op \in CommandOps \ {"resend_last_packet"}
     /\ ValidArgument
     /\ CommandSent
     /\ NeverOutputFull)
    => (/\ result = Err(ControllerError(Timeout))
        /\ Len(Reads(log)) = 1
        /\ Len(log) = 2)

C9_Witness ==
    /\ op = "request_status"
    /\ CommandSent
    /\ rxPre = <<Err(Timeout), Err(Timeout)>>
    /\ result = Err(ControllerError(Timeout))
    /\ rx = <<Err(Timeout)>>

\* The controller errors the conversions are compared on
ControllerErrors == {Timeout, TestFailed(0), TestFailed(85), TestFailed(255)}

\* C10: a controller call of an operation that fails with e is the
\* operation's last call, and the operation returns ControllerError(e) with
\* that same e; the conversions into MouseError and KeyboardError are
\* injective.
C10_LosslessWrapping ==
    /\ \A i \in 1..Len(log) :
          IsErr(log[i][3]) =>
              /\ i = Len(log)
              /\ result = Err(ControllerError(log[i][3][2]))
    /\ \A e1, e2 \in ControllerErrors :
          /\ MouseError_from(e1) = MouseError_from(e2) => e1 = e2
          /\ KeyboardError_from(e1) = KeyboardError_from(e2) => e1 = e2

C10_Witness ==
    /\ op = "set_resolution"
    /\ Len(log) = 3
    /\ log[3][3] = Err(TestFailed(0))
    /\ result = Err(ControllerError(TestFailed(0)))

\* The operations that send an argument byte after the command
ArgOps == {"set_resolution", "set_sample_rate"}

\* The opcode of each operation
OpCode(o) ==
    CASE o = "set_scaling_one_to_one" -> 230
      [] o = "set_scaling_two_to_one" -> 231
      [] o = "set_resolution" -> 232
      [] o = "request_status" -> 233
      [] o = "set_stream_mode" -> 234
      [] o = "read_data" -> 235
      [] o = "reset_wrap_mode" -> 236
      [] o = "set_wrap_mode" -> 238
      [] o = "set_remote_mode" -> 240
      [] o = "get_device_id" -> 242
      [] o = "set_sample_rate" -> 243
      [] o = "enable_data_reporting" -> 244
      [] o = "disable_data_reporting" -> 245
      [] o = "set_defaults" -> 246
      [] o = "resend_last_packet" -> 254
      [] o = "reset_and_self_test" -> 255

\* A controller call that failed, or a read that returned a byte other
\* than ACK
NotAcknowledged(e) == IsErr(e[3]) \/ (IsRead(e) /\ e[3] # Ok(COMMAND_ACKNOWLEDGED))

\* C11: no automatic retry.  Whatever the device returns, an operation
\* writes its command byte once at most and an argument byte once at most
\* (only set_resolution and set_sample_rate have one), and makes no write
\* after a controller error or a response other than ACK.
C11_NoRetry ==
    op \in CommandOps =>
        /\ Len(Writes(log)) <= (IF op \in ArgOps THEN 2 ELSE 1)
        /\ Writes(log) # <<>> => WrittenBytes(log)[1] = OpCode(op)
        /\ \A i \in 1..Len(log) : \A j \in (i + 1)..Len(log) :
              NotAcknowledged(log[i]) => IsRead(log[j])

C11_Witness ==
    /\ op = "set_sample_rate"
    /\ Len(log) = 4
    /\ log[4][3] = Ok(RESEND)
    /\ result = Err(Resend)
    /\ WrittenBytes(log) = <<243, 100>>

\* request_status was called, its command went out and was acknowledged,
\* and the device sent three further bytes
StatusAnswered ==
    /\ op = "request_status"
    /\ CommandSent
    /\ Len(rxPre) >= 4
    /\ rxPre[1] = Ok(COMMAND_ACKNOWLEDGED)
    /\ \A i \in 2..4 : IsOk(rxPre[i])

\* C12: request_status, acknowledged and with no read failing, reads
\* exactly three further bytes (status flags, resolution, sample rate in
\* that order), also when the resolution byte is out of range; it returns
\* Ok with that resolution and sample rate iff both are in their accepted
\* sets, InvalidResolution(res) when res is not (whatever the rate), and
\* InvalidSampleRate(rate) when only rate is not.
C12_StatusDecoded ==
    StatusAnswered =>
        LET res == rxPre[3][2]
            rate == rxPre[4][2]
        IN  /\ Len(Writes(log)) = 1
            /\ Len(Reads(log)) = 4
            /\ \A i \in 1..4 : Reads(log)[i][3] = rxPre[i]
            /\ Consumed(4)
            /\ IsOk(result) <=>
                  (res \in ValidResolutionValues /\ rate \in ValidSampleRateValues)
            /\ IsOk(result) =>
                  result[2] = <<MouseStatus_from_bits_truncate(rxPre[2][2]), res, rate>>
            /\ res \notin ValidResolutionValues =>
                  result = Err(InvalidResolution(res))
            /\ (res \in ValidResolutionValues /\ rate \notin ValidSampleRateValues) =>
                  result = Err(InvalidSampleRate(rate))

C12_Witness ==
    /\ StatusAnswered
    /\ rxPre[3] = Ok(3)
    /\ rxPre[4] = Ok(50)
    /\ Len(Reads(log)) = 4
    /\ result = Err(InvalidResolution(3))

\* C13: resend_last_packet makes one controller call, the write of 0xFE to
\* the mouse channel, and no read: the device's answers are all still
\* unread when it returns, and it returns Ok whenever that write succeeds.
C13_ResendOnlyWrites ==
    op = "resend_last_packet" =>
        /\ Len(log) = 1
        /\ log[1][1] = "write_mouse"
        /\ log[1][2] = <<254>>
        /\ rx = rxPre
        /\ IsOk(log[1][3]) => result = Ok(Unit)

C13_Witness ==
    /\ op = "resend_last_packet"
    /\ rxPre = <<Ok(RESEND), Ok(2)>>
    /\ rx = rxPre
    /\ result = Ok(Unit)

\* C15: every byte an operation transmits, the argument byte of
\* set_resolution and set_sample_rate included, goes out through
\* write_mouse, never through write_data.
C15_AllBytesToMouseChannel ==
    \A i \in 1..Len(log) : IsWrite(log[i]) => log[i][1] = "write_mouse"

\* The commands with neither argument nor payload
PlainOps ==
    {"set_scaling_one_to_one", "set_scaling_two_to_one", "set_stream_mode",
     "reset_wrap_mode", "set_wrap_mode", "set_remote_mode",
     "enable_data_reporting", "disable_data_reporting", "set_defaults"}

\* C16: a command with neither argument nor payload, its write going out
\* and its read returning a byte b, writes one byte (its opcode), reads
\* exactly the one byte b, and returns Ok iff b = 0xFA, Resend iff
\* b = 0xFE, and InvalidResponse(b) with that same b for every other b.
C16_PlainCommandAcknowledged ==
    (/\ op \in PlainOps
     /\ CommandSent
     /\ rxPre # <<>>
     /\ IsOk(rxPre[1]))
    => LET b == rxPre[1][2] IN
       /\ WrittenBytes(log) = <<OpCode(op)>>
       /\ Len(Reads(log)) = 1
       /\ Reads(log)[1][3] = Ok(b)
       /\ Consumed(1)
       /\ result = Ok(Unit) <=> b = 250
       /\ result = Err(Resend) <=> b = 254
       /\ b \notin {250, 254} => result = Err(InvalidResponse(b))

C16_Witness ==
    /\ op = "set_remote_mode"
    /\ CommandSent
    /\ rxPre = <<Ok(0), Ok(COMMAND_ACKNOWLEDGED)>>
    /\ result = Err(InvalidResponse(0))
    /\ rx = <<Ok(COMMAND_ACKNOWLEDGED)>>

\* C17: set_resolution and set_sample_rate with an accepted argument call
\* the controller in the order write command, read, write argument, read.
\* The argument is written only after ACK was read for the command; Ok is
\* returned exactly when a second ACK was read for the argument; RESEND or
\* another byte b at the second read gives Resend / InvalidResponse(b).
\* The argument byte of set_sample_rate is the rate itself.
C17_ArgumentExchangeOrder ==
    (op \in ArgOps /\ ValidArgument) =>
        /\ Len(log) <= 4
        /\ \A i \in 1..Len(log) : IF i % 2 = 1 THEN IsWrite(log[i]) ELSE IsRead(log[i])
        /\ log # <<>> => log[1][2] = <<OpCode(op)>>
        /\ Len(log) >= 3 => log[2][3] = Ok(COMMAND_ACKNOWLEDGED)
        /\ (Len(log) >= 3 /\ op = "set_sample_rate") => log[3][2] = arg
        /\ result = Ok(Unit) <=>
              (Len(log) = 4 /\ log[4][3] = Ok(COMMAND_ACKNOWLEDGED))
        /\ (Len(log) = 4 /\ log[4][3] = Ok(RESEND)) => result = Err(Resend)
        /\ (Len(log) = 4 /\ IsOk(log[4][3]) /\ log[4][3][2] \notin {250, 254}) =>
              result = Err(InvalidResponse(log[4][3][2]))

C17_Witness ==
    /\ op = "set_sample_rate"
    /\ arg = <<200>>
    /\ Len(log) = 4
    /\ log[3][2] = <<200>>
    /\ log[4][3] = Ok(2)
    /\ result = Err(InvalidResponse(2))

\* C18: in reset_and_self_test, a failed read of the trailing device-ID
\* byte is what the operation returns, as ControllerError of that error,
\* whatever the self-test byte was; and when the read of the acknowledgment
\* or of the self-test byte fails, no further byte is read.
C18_TrailingReadError ==
    op = "reset_and_self_test" =>
        LET r == Reads(log) IN
        /\ Len(r) <= 3
        /\ (Len(r) = 3 /\ IsErr(r[3][3])) => result = Err(ControllerError(r[3][3][2]))
        /\ \A i \in 1..Len(r) : IsErr(r[i][3]) => i = Len(r)

C18_Witness ==
    /\ op = "reset_and_self_test"
    /\ rxPre = <<Ok(COMMAND_ACKNOWLEDGED), Ok(SELF_TEST_PASSED), Err(TestFailed(85))>>
    /\ Len(Reads(log)) = 3
    /\ result = Err(ControllerError(TestFailed(85)))

====
